---------------------------- MODULE Spec2Model ----------------------------
(***************************************************************************)
(* Model of utils/create_srg_export.py: the SRG export batch job.          *)
(*                                                                         *)
(* A text value is a sequence of strings.  The description of an SRG Rule  *)
(* is kept character by character, because get_description_root rewrites   *)
(* and re-parses it; every other text (title, fix, ...) is passed through  *)
(* by the program unread and is kept as a one-element sequence.  Python's  *)
(* None for a text and the empty string are both <<>>: csv.DictWriter      *)
(* writes the same empty cell for either.                                  *)
(***************************************************************************)
EXTENDS Integers, Sequences, FiniteSets, TLC

VARIABLES
    pc,             \* position of main()
    controlExists,  \* input: the resolved --control path exists
    manualExists,   \* input: the --manual path exists
    manual,         \* input: the XCCDF manual, the Groups of the root, each its Rules
    controlFile,    \* input: the 'controls' list of the control file
    rulesFile,      \* input: the content of the --json rule index
    srgs,           \* main: result of get_srg_dict
    control_yaml,   \* main: the parsed control file
    rule_json,      \* main: the loaded rule index
    csv_file,       \* the output path: whether the file exists, and the rows written to it
    item,           \* main: index of the current control in control_yaml['controls']
    sel,            \* main: index of the current selection of the current control
    stderr,         \* messages written to stderr
    stdout,         \* messages written to stdout
    exitCode        \* process exit status, Running while the process runs

vars == <<pc, controlExists, manualExists, manual, controlFile, rulesFile, srgs,
          control_yaml, rule_json, csv_file, item, sel, stderr, stdout, exitCode>>

inputs == <<controlExists, manualExists, manual, controlFile, rulesFile>>

-----------------------------------------------------------------------------
(* Bounds of the model *)

MaxGroups == 2       \* Groups in a manual
MaxRules == 2        \* Rules in a manual, over all its Groups
MaxControls == 2     \* controls in a control file
MaxSelections == 2   \* selections in a control file, over all its controls

-----------------------------------------------------------------------------
(* Text helpers *)

Str(s) == <<s>>

StartsWith(s, p) == Len(s) >= Len(p) /\ SubSeq(s, 1, Len(p)) = p

Drop(s, n) == SubSeq(s, n + 1, Len(s))

\* str.replace(old, new): every non-overlapping occurrence, left to right
RECURSIVE Replace(_, _, _)
Replace(s, old, new) ==
    IF Len(s) < Len(old) THEN s
    ELSE IF StartsWith(s, old) THEN new \o Replace(Drop(s, Len(old)), old, new)
    ELSE <<Head(s)>> \o Replace(Tail(s), old, new)

\* position of the first occurrence of p in s, 0 when there is none
RECURSIVE IndexFrom(_, _, _)
IndexFrom(s, p, k) ==
    IF k + Len(p) - 1 > Len(s) THEN 0
    ELSE IF SubSeq(s, k, k + Len(p) - 1) = p THEN k
    ELSE IndexFrom(s, p, k + 1)

IndexOf(s, p) == IndexFrom(s, p, 1)

LT == <<"&", "l", "t", ";">>
GT == <<"&", "g", "t", ";">>
AMP == <<"&", "a", "m", "p", ";">>
SpaceAmpSpace == <<" ", "&", " ">>
RootOpen == <<"<", "r", "o", "o", "t", ">">>
RootClose == <<"<", "/", "r", "o", "o", "t", ">">>
VulnDiscussion == <<"V", "u", "l", "n", "D", "i", "s", "c", "u", "s", "s", "i", "o", "n">>
IAControls == <<"I", "A", "C", "o", "n", "t", "r", "o", "l", "s">>

OpenTag(name) == <<"<">> \o name \o <<">">>
CloseTag(name) == <<"<", "/">> \o name \o <<">">>

-----------------------------------------------------------------------------
(* xml.etree.ElementTree.fromstring, as far as get_description_root uses  *)
(* it: elements without attributes, the entities lt, gt and amp, and, per  *)
(* child of the root, its tag and its .text (the character data before its *)
(* first child element).                                                   *)

IsName(n) == /\ n # <<>>
             /\ \A k \in 1..Len(n) : n[k] \notin {"<", ">", "&", "/", " ", ";"}

Tok(k, v) == [k |-> k, v |-> v]

TagToken(body) ==
    IF body = <<>> THEN Tok("error", <<>>)
    ELSE IF Head(body) = "/"
        THEN IF IsName(Tail(body)) THEN Tok("close", Tail(body)) ELSE Tok("error", <<>>)
    ELSE IF body[Len(body)] = "/"
        THEN IF IsName(SubSeq(body, 1, Len(body) - 1))
             THEN Tok("empty", SubSeq(body, 1, Len(body) - 1))
             ELSE Tok("error", <<>>)
    ELSE IF IsName(body) THEN Tok("open", body) ELSE Tok("error", <<>>)

RECURSIVE Lex(_)
Lex(s) ==
    IF s = <<>> THEN <<>>
    ELSE IF Head(s) = "<" THEN
        LET j == IndexOf(s, <<">">>) IN
        IF j = 0 THEN <<Tok("error", <<>>)>>
        ELSE <<TagToken(SubSeq(s, 2, j - 1))>> \o Lex(Drop(s, j))
    ELSE IF Head(s) = "&" THEN
        IF StartsWith(s, LT) THEN <<Tok("char", <<"<">>)>> \o Lex(Drop(s, Len(LT)))
        ELSE IF StartsWith(s, GT) THEN <<Tok("char", <<">">>)>> \o Lex(Drop(s, Len(GT)))
        ELSE IF StartsWith(s, AMP) THEN <<Tok("char", <<"&">>)>> \o Lex(Drop(s, Len(AMP)))
        ELSE <<Tok("error", <<>>)>>
    ELSE <<Tok("char", <<Head(s)>>)>> \o Lex(Tail(s))

Kid(tag, text, open) == [tag |-> tag, text |-> text, open |-> open]

Parsed(ok, kids) == [ok |-> ok, kids |-> kids]

\* the last child of the root takes no more .text
Freeze(kids) ==
    [k \in 1..Len(kids) |->
        IF k = Len(kids) THEN Kid(kids[k].tag, kids[k].text, FALSE) ELSE kids[k]]

AppendText(kids, c) ==
    [k \in 1..Len(kids) |->
        IF k = Len(kids) /\ kids[k].open
        THEN Kid(kids[k].tag, kids[k].text \o c, TRUE) ELSE kids[k]]

\* stack: the open elements; closed: the root element has been closed
RECURSIVE Build(_, _, _, _)
Build(toks, stack, closed, kids) ==
    IF toks = <<>> THEN Parsed(stack = <<>> /\ closed, kids)
    ELSE LET t == Head(toks)
             depth == Len(stack)
         IN
         CASE t.k = "error" -> Parsed(FALSE, <<>>)
           [] t.k = "open" ->
                IF closed THEN Parsed(FALSE, <<>>)
                ELSE Build(Tail(toks), Append(stack, t.v), FALSE,
                           IF depth = 1 THEN Append(kids, Kid(t.v, <<>>, TRUE))
                           ELSE IF depth = 2 THEN Freeze(kids) ELSE kids)
           [] t.k = "empty" ->
                IF closed THEN Parsed(FALSE, <<>>)
                ELSE Build(Tail(toks), stack, depth = 0,
                           IF depth = 1 THEN Append(kids, Kid(t.v, <<>>, FALSE))
                           ELSE IF depth = 2 THEN Freeze(kids) ELSE kids)
           [] t.k = "close" ->
                IF depth = 0 \/ stack[depth] # t.v THEN Parsed(FALSE, <<>>)
                ELSE Build(Tail(toks), SubSeq(stack, 1, depth - 1), depth = 1,
                           IF depth = 2 THEN Freeze(kids) ELSE kids)
           [] OTHER ->
                IF depth = 0 THEN (IF t.v = <<" ">> THEN Build(Tail(toks), stack, closed, kids)
                                   ELSE Parsed(FALSE, <<>>))
                ELSE Build(Tail(toks), stack, closed,
                           IF depth = 2 THEN AppendText(kids, t.v) ELSE kids)

fromstring(xml) == Build(Lex(xml), <<>>, FALSE, <<>>)

\* Element.find(tag) on the root: its first child with that tag, 0 for None
find(kids, tag) ==
    IF \E k \in 1..Len(kids) : kids[k].tag = tag
    THEN CHOOSE k \in 1..Len(kids) :
            kids[k].tag = tag /\ \A m \in 1..(k - 1) : kids[m].tag # tag
    ELSE 0

-----------------------------------------------------------------------------
(* get_description_root and get_srg_dict *)

SEVERITY == [s \in {"low", "medium", "high"} |->
                CASE s = "low" -> Str("CAT III")
                  [] s = "medium" -> Str("CAT II")
                  [] s = "high" -> Str("CAT I")]

\* srg.get('severity') of a Rule that has no severity attribute
None == "None"

\* the three replacements applied to the description text before it is re-parsed
Unescape(text) ==
    Replace(Replace(Replace(text, LT, <<"<">>), GT, <<">">>), SpaceAmpSpace, <<>>)

get_description_root(srg) ==
    fromstring(RootOpen \o Unescape(srg.description) \o RootClose)

Return(v) == [err |-> "", val |-> v]
Raise(e) == [err |-> e, val |-> <<>>]

\* SEVERITY.get(srg.get('severity'), ''): no KeyError for an unknown severity
SeverityOfDefault(srg) ==
    IF srg.severity \in DOMAIN SEVERITY THEN Return(SEVERITY[srg.severity])
    ELSE Return(<<>>)

\* SEVERITY[srg.get('severity')]
SeverityOf(srg) ==
    IF srg.severity \in DOMAIN SEVERITY THEN Return(SEVERITY[srg.severity])
    ELSE Raise("KeyError")

\* the fields get_srg_dict stores for one Rule, or the exception it raises
SrgEntry(srg) ==
    LET severity == SeverityOf(srg)
        description_root == get_description_root(srg)
        vd == find(description_root.kids, VulnDiscussion)
        ia == find(description_root.kids, IAControls)
    IN  IF severity.err # "" THEN Raise(severity.err)
        ELSE IF ~description_root.ok THEN Raise("ParseError")
        ELSE IF vd = 0 \/ ia = 0 THEN Raise("AttributeError")
        ELSE Return([severity |-> severity.val,
                     title |-> srg.title,
                     vuln_discussion |-> description_root.kids[vd].text,
                     cci |-> srg.ident,
                     fix |-> srg.fix,
                     check |-> srg.description,
                     ia_controls |-> description_root.kids[ia].text])

\* srgs.setdefault(srg_id, entry): the first Rule of an id is kept
StoreEntryKeepFirst(d, srg_id, entry) ==
    [k \in DOMAIN d \cup {srg_id} |-> IF k \in DOMAIN d THEN d[k] ELSE entry]

\* srgs[srg_id] = dict() followed by the assignments of its fields
StoreEntry(d, srg_id, entry) ==
    [k \in DOMAIN d \cup {srg_id} |-> IF k = srg_id THEN entry ELSE d[k]]

\* for srg in group.findall('xccdf-1.1:Rule', NS)
RECURSIVE RuleLoop(_, _)
RuleLoop(result, rules) ==
    IF result.err # "" \/ rules = <<>> THEN result
    ELSE LET srg == Head(rules)
             entry == SrgEntry(srg)
         IN  IF entry.err # "" THEN Raise(entry.err)
             ELSE RuleLoop(Return(StoreEntry(result.val, srg.version, entry.val)),
                           Tail(rules))

\* for group in root.findall('xccdf-1.1:Group', NS)
RECURSIVE GroupLoop(_, _)
GroupLoop(result, groups) ==
    IF result.err # "" \/ groups = <<>> THEN result
    ELSE GroupLoop(RuleLoop(result, Head(groups)), Tail(groups))

\* get_srg_dict once the manual is known to exist
get_srg_dict(root) == GroupLoop(Return(<<>>), root)

-----------------------------------------------------------------------------
(* The collaborators of ssg and the csv writer *)

\* ssg.controls.Control.from_control_dict: the control's id and selections
from_control_dict(control_dict) ==
    [id |-> control_dict.id, selections |-> control_dict.selections]

\* handle_rule_yaml: the normalized rule of a rule directory; only .ocil is read
handle_rule_yaml(rule_dir) == [ocil |-> <<"ocil of ", rule_dir>>]

headers == <<"IA Control", "CCI", "SRGID", "SRG Requirement", "SRG VulDiscussion",
             "VulDiscussion", "Status", "SRG Check", "Check", "SRG Fix", "Fix",
             "Severity", "Mitigation", "Artifact Description", "Status Justification">>

\* csv.DictWriter.writeheader: the field names, in order
writeheader == [k \in 1..Len(headers) |-> Str(headers[k])]

\* csv.writer.writerow(row.values()): the values in the order main sets them
writerowUnordered(row) ==
    LET order == <<"SRGID", "CCI", "SRG Requirement", "SRG VulDiscussion", "SRG Check",
                   "SRG Fix", "Severity", "IA Control", "Fix">>
    IN  [k \in 1..Len(headers) |-> IF k <= Len(order) THEN row[order[k]] ELSE <<>>]

\* csv.DictWriter.writerow: the row's values in the order of the field names,
\* an empty cell for a field name the row does not set
writerow(row) ==
    [k \in 1..Len(headers) |-> IF headers[k] \in DOMAIN row THEN row[headers[k]] ELSE <<>>]

\* a write that puts the line right after the first line of the file
writeAfterHeader(file, line) ==
    [file EXCEPT !.rows = IF @ = <<>> THEN <<line>> ELSE <<Head(@), line>> \o Tail(@)]

\* the csv writer's write to the open file: the line goes after what is there
write(file, line) == [file EXCEPT !.rows = Append(@, line)]

\* a row whose SRGID is taken from the SRG entry's CCI
BuildRowWrongId(srg_id, srg, rule_object) ==
    [h \in {"SRGID", "CCI", "SRG Requirement", "SRG VulDiscussion", "SRG Check",
            "SRG Fix", "Severity", "IA Control", "Fix"} |->
        CASE h = "SRGID" -> srg.cci
          [] h = "CCI" -> srg.cci
          [] h = "SRG Requirement" -> srg.title
          [] h = "SRG VulDiscussion" -> srg.vuln_discussion
          [] h = "SRG Check" -> srg.check
          [] h = "SRG Fix" -> srg.fix
          [] h = "Severity" -> srg.severity
          [] h = "IA Control" -> srg.ia_controls
          [] h = "Fix" -> rule_object.ocil]

\* the row main builds for one selection of one control
BuildRow(srg_id, srg, rule_object) ==
    [h \in {"SRGID", "CCI", "SRG Requirement", "SRG VulDiscussion", "SRG Check",
            "SRG Fix", "Severity", "IA Control", "Fix"} |->
        CASE h = "SRGID" -> Str(srg_id)
          [] h = "CCI" -> srg.cci
          [] h = "SRG Requirement" -> srg.title
          [] h = "SRG VulDiscussion" -> srg.vuln_discussion
          [] h = "SRG Check" -> srg.check
          [] h = "SRG Fix" -> srg.fix
          [] h = "Severity" -> srg.severity
          [] h = "IA Control" -> srg.ia_controls
          [] h = "Fix" -> rule_object.ocil]

-----------------------------------------------------------------------------
(* The inputs the model draws from *)

SeqsUpTo(S, n) == UNION {[1..k -> S] : k \in 0..n}

RECURSIVE Sum(_)
Sum(ns) == IF ns = <<>> THEN 0 ELSE Head(ns) + Sum(Tail(ns))

Versions == {"SRG-OS-000001", "SRG-OS-000002"}
Severities == {"low", "medium", "high", "critical", None}
RuleIds == {"rule_a", "rule_b"}

\* the escaped sub-document a description carries
Description(vuln, ia) ==
    OpenTag(VulnDiscussion) \o vuln \o CloseTag(VulnDiscussion)
        \o OpenTag(IAControls) \o ia \o CloseTag(IAControls)

\* the child elements of a Rule other than version: plain text, text with " & ",
\* text with markup escaped twice, and a description without VulnDiscussion
BodyPlain == [title |-> Str("Title A"), ident |-> Str("CCI-000001"),
              fix |-> Str("Fix A"), check_content |-> Str("Check A"),
              description |-> Description(<<"a", "b">>, <<"c">>)]
BodyAmp == [title |-> Str("Title B"), ident |-> Str("CCI-000002"),
            fix |-> Str("Fix B"), check_content |-> Str("Check B"),
            description |-> Description(<<"a", " ", "&", " ", "b">>, <<"d">>)]
BodyMarkup == [title |-> Str("Title C"), ident |-> Str("CCI-000003"),
               fix |-> Str("Fix C"), check_content |-> Str("Check C"),
               description |-> Description(<<"a">> \o LT \o <<"b", "/">> \o GT \o <<"c">>,
                                           <<>>)]
BodyNoVuln == [title |-> Str("Title D"), ident |-> Str("CCI-000004"),
               fix |-> Str("Fix D"), check_content |-> Str("Check D"),
               description |-> OpenTag(IAControls) \o <<"e">> \o CloseTag(IAControls)]
Bodies == {BodyPlain, BodyAmp, BodyMarkup, BodyNoVuln}

\* a Rule element: its severity attribute and the text of its child elements
Rule(version, severity, body) ==
    [version |-> version, severity |-> severity, title |-> body.title,
     description |-> body.description, ident |-> body.ident, fix |-> body.fix,
     check_content |-> body.check_content]

BodyOf(version) == IF version = "SRG-OS-000001" THEN BodyPlain ELSE BodyAmp

\* the Rules get_srg_dict is checked on: every severity on each id, and every
\* body on one id
SrgRules == {Rule(v, s, BodyOf(v)) : v \in Versions, s \in Severities}
                \cup {Rule("SRG-OS-000001", "medium", b) : b \in Bodies}

\* rules cut into consecutive Groups of the given sizes
RECURSIVE Split(_, _)
Split(rules, sizes) ==
    IF sizes = <<>> THEN <<>>
    ELSE <<SubSeq(rules, 1, Head(sizes))>> \o Split(Drop(rules, Head(sizes)), Tail(sizes))

\* the manuals of at most MaxGroups Groups and MaxRules Rules over a pool of Rules
Manuals(pool) ==
    {Split(rules, sizes) :
        <<rules, sizes>> \in {rs \in SeqsUpTo(pool, MaxRules) \X SeqsUpTo(0..MaxRules, MaxGroups) :
                                Sum(rs[2]) = Len(rs[1])}}

\* the manuals main is run on: a manual whose Rule has no severity, and, for every
\* set of SRG ids, the manual of one Group of one Rule per id
PipelineManuals ==
    {<< <<Rule("SRG-OS-000001", None, BodyPlain)>> >>}
        \cup {SelectSeq(<< <<Rule("SRG-OS-000001", "medium", BodyPlain)>>,
                           <<Rule("SRG-OS-000002", "high", BodyAmp)>> >>,
                        LAMBDA group : group[1].version \in ids) : ids \in SUBSET Versions}

\* an entry of control_yaml['controls']
ControlDicts == [id : Versions, selections : SeqsUpTo(RuleIds, MaxSelections)]

RECURSIVE Selections(_)
Selections(controls) ==
    IF controls = <<>> THEN 0
    ELSE Len(Head(controls).selections) + Selections(Tail(controls))

ControlFiles ==
    {controls \in SeqsUpTo(ControlDicts, MaxControls) : Selections(controls) <= MaxSelections}

\* rule_dirs.json: a directory for each rule id it lists
RuleIndexes == {[rule \in ids |-> [dir |-> "linux_os/" \o rule]] : ids \in SUBSET RuleIds}

-----------------------------------------------------------------------------
(* State *)

\* the output path before open() creates it
NoFile == [exists |-> FALSE, rows |-> <<>>]
\* a local of main before its assignment
NotLoaded == [unset |-> TRUE]
Running == -1

TypeOK ==
    /\ pc \in {"check_control", "get_srg_dict", "parse_manual", "open_raw", "load_json",
               "open_output", "setup_csv_writer", "open_environment", "controls",
               "selections", "print", "done", "exited", "aborted"}
    /\ controlExists \in BOOLEAN /\ manualExists \in BOOLEAN
    /\ item \in 0..(MaxControls + 1) /\ sel \in 0..(MaxSelections + 1)
    /\ exitCode \in {Running, 0, 1}

Start ==
    /\ srgs = NotLoaded /\ control_yaml = NotLoaded /\ rule_json = NotLoaded
    /\ csv_file = NoFile
    /\ item = 0 /\ sel = 0
    /\ stderr = <<>> /\ stdout = <<>>
    /\ exitCode = Running

\* main after parse_args: files that do not exist have no content
Init ==
    /\ pc = "check_control"
    /\ controlExists \in BOOLEAN
    /\ manualExists \in BOOLEAN
    /\ manual \in IF manualExists THEN PipelineManuals ELSE {<<>>}
    /\ controlFile \in IF controlExists THEN ControlFiles ELSE {<<>>}
    /\ rulesFile \in RuleIndexes
    /\ Start

\* get_srg_dict called on any manual of the bounded pool
InitSrg ==
    /\ pc = "get_srg_dict"
    /\ controlExists = TRUE
    /\ manualExists \in BOOLEAN
    /\ manual \in IF manualExists THEN Manuals(SrgRules) ELSE {<<>>}
    /\ controlFile = <<>>
    /\ rulesFile = [rule \in RuleIds |-> [dir |-> "linux_os/" \o rule]]
    /\ Start

-----------------------------------------------------------------------------
(* Ways for the process to end *)

\* sys.stderr.write(message); exit(1)
Exit1(message) ==
    /\ stderr' = Append(stderr, message)
    /\ exitCode' = 1
    /\ pc' = "exited"

\* an exception nothing catches: the interpreter prints the traceback and
\* ends the process with status 1
Uncaught(exception) ==
    /\ stderr' = Append(stderr, "Traceback: " \o exception)
    /\ exitCode' = 1
    /\ pc' = "aborted"

Goto(label) == pc' = label /\ UNCHANGED <<stderr, exitCode>>

-----------------------------------------------------------------------------
(* main, one action per step *)

\* main without the check of lines 95-97
CheckControlUnchecked ==
    /\ pc = "check_control"
    /\ Goto("get_srg_dict")
    /\ UNCHANGED <<inputs, srgs, control_yaml, rule_json, csv_file, item, sel, stdout>>

\* lines 93-97
CheckControl ==
    /\ pc = "check_control"
    /\ IF ~controlExists THEN Exit1("Unable to find control file") ELSE Goto("get_srg_dict")
    /\ UNCHANGED <<inputs, srgs, control_yaml, rule_json, csv_file, item, sel, stdout>>

\* get_srg_dict without the check of lines 40-42
CheckManualUnchecked ==
    /\ pc = "get_srg_dict"
    /\ Goto("parse_manual")
    /\ UNCHANGED <<inputs, srgs, control_yaml, rule_json, csv_file, item, sel, stdout>>

\* line 98, get_srg_dict lines 40-42
CheckManual ==
    /\ pc = "get_srg_dict"
    /\ IF ~manualExists THEN Exit1("XML for SRG was not found") ELSE Goto("parse_manual")
    /\ UNCHANGED <<inputs, srgs, control_yaml, rule_json, csv_file, item, sel, stdout>>

\* line 98, get_srg_dict lines 43-58
ParseManual ==
    /\ pc = "parse_manual"
    /\ LET result == get_srg_dict(manual)
       IN  IF result.err # ""
           THEN Uncaught(result.err) /\ UNCHANGED srgs
           ELSE Goto("open_raw") /\ srgs' = result.val
    /\ UNCHANGED <<inputs, control_yaml, rule_json, csv_file, item, sel, stdout>>

\* line 99
OpenRaw ==
    /\ pc = "open_raw"
    /\ control_yaml' = [controls |-> controlFile]
    /\ Goto("load_json")
    /\ UNCHANGED <<inputs, srgs, rule_json, csv_file, item, sel, stdout>>

\* lines 100-101
LoadJson ==
    /\ pc = "load_json"
    /\ rule_json' = rulesFile
    /\ Goto("open_output")
    /\ UNCHANGED <<inputs, srgs, control_yaml, csv_file, item, sel, stdout>>

\* lines 103-104: open(full_output, 'w') creates the file, or empties it
OpenOutput ==
    /\ pc = "open_output"
    /\ csv_file' = [exists |-> TRUE, rows |-> <<>>]
    /\ Goto("setup_csv_writer")
    /\ UNCHANGED <<inputs, srgs, control_yaml, rule_json, item, sel, stdout>>

\* setup_csv_writer without writeheader()
setup_csv_writer_no_header ==
    /\ pc = "setup_csv_writer"
    /\ Goto("open_environment")
    /\ UNCHANGED <<inputs, srgs, control_yaml, rule_json, csv_file, item, sel, stdout>>

\* line 105, setup_csv_writer lines 131-137
setup_csv_writer ==
    /\ pc = "setup_csv_writer"
    /\ csv_file' = write(csv_file, writeheader)
    /\ Goto("open_environment")
    /\ UNCHANGED <<inputs, srgs, control_yaml, rule_json, item, sel, stdout>>

\* lines 107-109, and the first control of line 111
OpenEnvironment ==
    /\ pc = "open_environment"
    /\ item' = 1
    /\ Goto("controls")
    /\ UNCHANGED <<inputs, srgs, control_yaml, rule_json, csv_file, sel, stdout>>

\* lines 111-112: the next control, or the end of the controls
ForControl ==
    /\ pc = "controls"
    /\ IF item <= Len(control_yaml.controls)
       THEN Goto("selections") /\ sel' = 1
       ELSE Goto("print") /\ UNCHANGED sel
    /\ UNCHANGED <<inputs, srgs, control_yaml, rule_json, csv_file, item, stdout>>

\* the loop body with the lookups guarded: a pair that cannot be resolved is skipped
ForSelectionSkipsFailures ==
    /\ pc = "selections"
    /\ LET control == from_control_dict(control_yaml.controls[item])
           srg_id == control_yaml.controls[item].id
       IN  IF sel > Len(control.selections)
           THEN Goto("controls") /\ item' = item + 1 /\ UNCHANGED <<csv_file, sel>>
           ELSE LET rule == control.selections[sel]
                IN  /\ csv_file' =
                         IF srg_id \notin DOMAIN srgs \/ rule \notin DOMAIN rule_json
                         THEN csv_file
                         ELSE write(csv_file,
                                    writerow(BuildRow(srg_id, srgs[srg_id],
                                                      handle_rule_yaml(rule_json[rule].dir))))
                    /\ sel' = sel + 1
                    /\ Goto("selections")
                    /\ UNCHANGED item
    /\ UNCHANGED <<inputs, srgs, control_yaml, rule_json, stdout>>

\* lines 113-127: the next selection of the control, or the end of its selections
ForSelection ==
    /\ pc = "selections"
    /\ LET control == from_control_dict(control_yaml.controls[item])
           srg_id == control_yaml.controls[item].id
       IN  IF sel > Len(control.selections)
           THEN Goto("controls") /\ item' = item + 1 /\ UNCHANGED <<csv_file, sel>>
           ELSE LET rule == control.selections[sel]
                IN  IF srg_id \notin DOMAIN srgs \/ rule \notin DOMAIN rule_json
                    THEN Uncaught("KeyError") /\ UNCHANGED <<csv_file, item, sel>>
                    ELSE /\ csv_file' =
                              write(csv_file,
                                    writerow(BuildRow(srg_id, srgs[srg_id],
                                                      handle_rule_yaml(rule_json[rule].dir))))
                         /\ sel' = sel + 1
                         /\ Goto("selections")
                         /\ UNCHANGED item
    /\ UNCHANGED <<inputs, srgs, control_yaml, rule_json, stdout>>

\* line 128, and the normal end of the process
PrintDone ==
    /\ pc = "print"
    /\ stdout' = Append(stdout, "File written to")
    /\ exitCode' = 0
    /\ pc' = "done"
    /\ UNCHANGED <<inputs, srgs, control_yaml, rule_json, csv_file, item, sel, stderr>>

Next ==
    \/ CheckControl
    \/ CheckManual
    \/ ParseManual
    \/ OpenRaw
    \/ LoadJson
    \/ OpenOutput
    \/ setup_csv_writer
    \/ OpenEnvironment
    \/ ForControl
    \/ ForSelection
    \/ PrintDone

Spec == Init /\ [][Next]_vars

NextSrg == CheckManual \/ ParseManual

SpecSrg == InitSrg /\ [][NextSrg]_vars

-----------------------------------------------------------------------------
(* What the properties are stated with *)

Terminal == pc \in {"done", "exited", "aborted"}

\* the (control, selection) pairs of a control file, in file order
RECURSIVE PairsOf(_)
PairsOf(controls) ==
    IF controls = <<>> THEN <<>>
    ELSE [k \in 1..Len(Head(controls).selections) |->
             [id |-> Head(controls).id, rule |-> Head(controls).selections[k]]]
         \o PairsOf(Tail(controls))

Pairs == PairsOf(controlFile)

\* the Rules of all Groups of a manual, in document order
RECURSIVE RulesOf(_)
RulesOf(root) == IF root = <<>> THEN <<>> ELSE Head(root) \o RulesOf(Tail(root))

\* the last Rule of the manual that carries the version id
LastRule(id) ==
    LET rules == RulesOf(manual)
        last == CHOOSE k \in 1..Len(rules) :
                    rules[k].version = id /\ \A m \in (k + 1)..Len(rules) : rules[m].version # id
    IN  rules[last]

\* the 15 columns of section 6 of the specification
FixedHeader == <<Str("IA Control"), Str("CCI"), Str("SRGID"), Str("SRG Requirement"),
                 Str("SRG VulDiscussion"), Str("VulDiscussion"), Str("Status"),
                 Str("SRG Check"), Str("Check"), Str("SRG Fix"), Str("Fix"),
                 Str("Severity"), Str("Mitigation"), Str("Artifact Description"),
                 Str("Status Justification")>>

Column(name) == CHOOSE k \in 1..Len(FixedHeader) : FixedHeader[k] = Str(name)

Cell(row, name) == row[Column(name)]

\* the data rows of the output file
DataRows == IF csv_file.rows = <<>> THEN <<>> ELSE Tail(csv_file.rows)

\* the pair cannot be resolved: its control id has no SRG entry, or its rule id
\* is not in the rule index
Fails(pair) == pair.id \notin DOMAIN srgs \/ pair.rule \notin DOMAIN rulesFile

\* the first pair that cannot be resolved, 0 when all can
FirstFailing ==
    IF \E k \in 1..Len(Pairs) : Fails(Pairs[k])
    THEN CHOOSE k \in 1..Len(Pairs) : Fails(Pairs[k]) /\ \A m \in 1..(k - 1) : ~Fails(Pairs[m])
    ELSE 0

\* the text between the first start and the end that follows it
Between(text, start, end) ==
    LET rest == Drop(text, IndexOf(text, start) + Len(start) - 1)
    IN  SubSeq(rest, 1, IndexOf(rest, end) - 1)

-----------------------------------------------------------------------------
(* C1: when the manual does not exist and the control file does, the run   *)
(* never gets past the check in get_srg_dict: it ends by exit(1) with the  *)
(* error message on stderr, and the output file is never created.          *)
C1_MissingManualExitsBeforeOutput ==
    (controlExists /\ ~manualExists) =>
        /\ pc \in {"check_control", "get_srg_dict", "exited"}
        /\ csv_file = NoFile
        /\ srgs = NotLoaded
        /\ stdout = <<>>
        /\ pc = "exited" => (exitCode = 1 /\ stderr = <<"XML for SRG was not found">>)
        /\ pc # "exited" => (exitCode = Running /\ stderr = <<>>)

C1_Witness ==
    /\ controlExists /\ ~manualExists
    /\ pc = "exited" /\ exitCode = 1 /\ csv_file = NoFile
    /\ controlFile # <<>>

(* C2: when the control file does not exist, the run ends at the first     *)
(* step by exit(1) with the error message on stderr, whatever the manual   *)
(* and the rule index are: the manual is not parsed, the rule index is not *)
(* read and the output file is not created.                                *)
C2_MissingControlExitsFirst ==
    ~controlExists =>
        /\ pc \in {"check_control", "exited"}
        /\ srgs = NotLoaded /\ control_yaml = NotLoaded /\ rule_json = NotLoaded
        /\ csv_file = NoFile
        /\ stdout = <<>>
        /\ pc = "exited" => (exitCode = 1 /\ stderr = <<"Unable to find control file">>)
        /\ pc # "exited" => (exitCode = Running /\ stderr = <<>>)

C2_Witness ==
    /\ ~controlExists /\ manualExists /\ manual # <<>>
    /\ pc = "exited" /\ exitCode = 1

(* C3: when every control id is a key of the SRG map and every selected    *)
(* rule id is in the rule index, the run does not fail, and when it is     *)
(* done it has exit code 0 and the file holds the header and one data row  *)
(* per (control, selection) pair, the k-th row's SRGID being the id of the *)
(* control of the k-th pair.                                               *)
C3_OneRowPerSelection ==
    (/\ srgs # NotLoaded
     /\ \A c \in 1..Len(controlFile) : controlFile[c].id \in DOMAIN srgs
     /\ \A k \in 1..Len(Pairs) : Pairs[k].rule \in DOMAIN rulesFile) =>
        /\ pc \notin {"exited", "aborted"}
        /\ Len(DataRows) <= Len(Pairs)
        /\ \A k \in 1..Len(DataRows) : Cell(DataRows[k], "SRGID") = Str(Pairs[k].id)
        /\ pc = "done" =>
              /\ exitCode = 0
              /\ Len(csv_file.rows) = 1 + Len(Pairs)
              /\ csv_file.rows[1] = FixedHeader

C3_Witness ==
    /\ pc = "done" /\ exitCode = 0
    /\ Len(Pairs) = 2 /\ Len(DataRows) = 2
    /\ \E c \in 1..Len(controlFile) : controlFile[c].selections = <<>>
    /\ Cell(DataRows[1], "SRGID") = Str("SRG-OS-000002")

(* C4: whenever the output file has content, its first row is the fixed    *)
(* 15-column header, and no later row is a header.                         *)
C4_HeaderFirstAndOnce ==
    /\ csv_file.rows # <<>> =>
          /\ csv_file.exists
          /\ csv_file.rows[1] = FixedHeader
          /\ Len(csv_file.rows[1]) = 15
          /\ \A k \in 2..Len(csv_file.rows) : csv_file.rows[k] # FixedHeader
    /\ (csv_file.exists /\ csv_file.rows = <<>>) => pc = "setup_csv_writer"

C4_Witness ==
    /\ Len(csv_file.rows) = 3
    /\ csv_file.rows[1] = FixedHeader
    /\ Cell(csv_file.rows[2], "SRGID") # Cell(csv_file.rows[3], "SRGID")

\* the severity the specification gives for a severity attribute
CatOf(severity) ==
    CASE severity = "high" -> Str("CAT I")
      [] severity = "medium" -> Str("CAT II")
      [] severity = "low" -> Str("CAT III")

\* some Rule of the manual has no severity, or one that is not low, medium or high
HasBadSeverity ==
    \E k \in 1..Len(RulesOf(manual)) :
        RulesOf(manual)[k].severity \notin {"low", "medium", "high"}

(* C5: every entry of the map get_srg_dict returns has the severity CAT I, *)
(* CAT II or CAT III that its Rule's high, medium or low maps to; when a   *)
(* Rule of the manual has no severity or another one, get_srg_dict returns *)
(* no map: it aborts.                                                      *)
C5_SeverityIsCat ==
    /\ srgs # NotLoaded =>
          /\ ~HasBadSeverity
          /\ \A id \in DOMAIN srgs :
                /\ srgs[id].severity \in {Str("CAT I"), Str("CAT II"), Str("CAT III")}
                /\ srgs[id].severity = CatOf(LastRule(id).severity)
    /\ HasBadSeverity =>
          /\ srgs = NotLoaded
          /\ pc \in {"get_srg_dict", "parse_manual", "aborted"}
          /\ pc = "aborted" => exitCode = 1

C5_Witness ==
    /\ srgs # NotLoaded
    /\ \E a, b \in DOMAIN srgs :
          srgs[a].severity = Str("CAT I") /\ srgs[b].severity = Str("CAT III")

(* C6: in every data row, SRG VulDiscussion, SRG Check and SRG Fix are the *)
(* text of the VulnDiscussion, of the check and of the fix of the SRG Rule *)
(* with the row's SRGID, character for character.                          *)
C6_RoundTrip ==
    \A k \in 1..Len(DataRows) :
        LET row == DataRows[k]
            rule == LastRule(Cell(row, "SRGID")[1])
        IN  /\ Cell(row, "SRG VulDiscussion") =
                  Between(rule.description, OpenTag(VulnDiscussion), CloseTag(VulnDiscussion))
            /\ Cell(row, "SRG Check") = rule.check_content
            /\ Cell(row, "SRG Fix") = rule.fix

(* C7: every data row has the 15 cells of the header; the eight SRG cells  *)
(* are those of the SRG entry of the control id of the row's pair, Fix is  *)
(* the ocil of the rule of the row's pair, and the six other cells are     *)
(* empty.                                                                  *)
C7_NineColumnsSet ==
    \A k \in 1..Len(DataRows) :
        LET row == DataRows[k]
            id == Pairs[k].id
        IN  /\ Len(row) = 15
            /\ id \in DOMAIN srgs
            /\ Cell(row, "SRGID") = Str(id)
            /\ Cell(row, "IA Control") = srgs[id].ia_controls
            /\ Cell(row, "CCI") = srgs[id].cci
            /\ Cell(row, "SRG Requirement") = srgs[id].title
            /\ Cell(row, "SRG VulDiscussion") = srgs[id].vuln_discussion
            /\ Cell(row, "SRG Check") = srgs[id].check
            /\ Cell(row, "SRG Fix") = srgs[id].fix
            /\ Cell(row, "Severity") = srgs[id].severity
            /\ Cell(row, "Fix") = handle_rule_yaml(rulesFile[Pairs[k].rule].dir).ocil
            /\ \A name \in {"VulDiscussion", "Status", "Check", "Mitigation",
                            "Artifact Description", "Status Justification"} :
                  Cell(row, name) = <<>>

C7_Witness ==
    /\ Len(DataRows) = 2
    /\ Cell(DataRows[1], "SRGID") # Cell(DataRows[2], "SRGID")
    /\ Cell(DataRows[1], "Fix") # Cell(DataRows[2], "Fix")
    /\ Cell(DataRows[1], "SRG Requirement") = Str("Title B")
    /\ Cell(DataRows[2], "SRG Requirement") = Str("Title A")

(* C8 as stated: when a control's id is not a key of the SRG map, or a     *)
(* selected rule id is not in the rule index, the run never has exit code  *)
(* 0 and never prints the success message.                                 *)
C8_AnyUnknownIdFails ==
    (/\ srgs # NotLoaded
     /\ \/ \E c \in 1..Len(controlFile) : controlFile[c].id \notin DOMAIN srgs
        \/ \E k \in 1..Len(Pairs) : Pairs[k].rule \notin DOMAIN rulesFile) =>
        (exitCode # 0 /\ stdout = <<>>)

(* C8 amended: when some (control, selection) pair has a control id that   *)
(* is not a key of the SRG map or a rule id that is not in the rule index, *)
(* the run never has exit code 0 and never prints the success message; it  *)
(* ends in an uncaught KeyError at the first such pair, with the rows of   *)
(* the pairs before it and no other.  When no pair is such, the run does   *)
(* not fail, whatever the ids of the controls without selections.          *)
C8_FailingPairAborts ==
    /\ (srgs # NotLoaded /\ FirstFailing # 0) =>
          /\ exitCode # 0 /\ stdout = <<>>
          /\ pc \notin {"print", "done", "exited"}
          /\ Len(DataRows) <= FirstFailing - 1
          /\ pc = "aborted" =>
                /\ exitCode = 1
                /\ stderr = <<"Traceback: KeyError">>
                /\ Len(DataRows) = FirstFailing - 1
    /\ (srgs # NotLoaded /\ FirstFailing = 0) => pc \notin {"aborted", "exited"}

C8_Witness ==
    /\ pc = "aborted" /\ srgs # NotLoaded
    /\ FirstFailing = 2 /\ Len(DataRows) = 1
    /\ Pairs[2].id \notin DOMAIN srgs /\ Pairs[2].rule \in DOMAIN rulesFile

IsPrefix(a, b) == Len(a) <= Len(b) /\ SubSeq(b, 1, Len(a)) = a

(* C9: the data rows written so far are the rows of the first pairs of the *)
(* control file, in file order; a step only adds rows after those there;   *)
(* and a run that fails at the k-th pair leaves the header and the first   *)
(* k-1 rows.                                                               *)
C9_AppendOnlyInFileOrder ==
    /\ [](/\ Len(DataRows) <= Len(Pairs)
          /\ \A k \in 1..Len(DataRows) :
                /\ Cell(DataRows[k], "SRGID") = Str(Pairs[k].id)
                /\ Cell(DataRows[k], "Fix") = <<"ocil of ", "linux_os/" \o Pairs[k].rule>>
          /\ (pc = "aborted" /\ csv_file.exists) =>
                /\ FirstFailing # 0
                /\ csv_file.rows[1] = FixedHeader
                /\ Len(csv_file.rows) = FirstFailing)
    /\ [][/\ IsPrefix(csv_file.rows, csv_file'.rows)
          /\ csv_file.exists => csv_file'.exists]_vars

C9_Witness ==
    /\ pc = "aborted" /\ csv_file.exists
    /\ Len(controlFile) = 1 /\ Len(Pairs) = 2
    /\ Pairs[1].rule # Pairs[2].rule
    /\ Len(DataRows) = 1

(* C10: the map get_srg_dict returns has one entry per version id found in *)
(* the Rules of the Groups, and the entry of an id is, field by field,     *)
(* that of the last Rule with that id.                                     *)
C10_LastRuleWins ==
    srgs # NotLoaded =>
        /\ DOMAIN srgs = {RulesOf(manual)[k].version : k \in 1..Len(RulesOf(manual))}
        /\ \A id \in DOMAIN srgs :
              LET rule == LastRule(id)
              IN  /\ srgs[id].title = rule.title
                  /\ srgs[id].cci = rule.ident
                  /\ srgs[id].fix = rule.fix
                  /\ srgs[id].check = rule.description
                  /\ srgs[id].severity = CatOf(rule.severity)
                  /\ srgs[id] = SrgEntry(rule).val

C10_Witness ==
    /\ srgs # NotLoaded
    /\ Cardinality(DOMAIN srgs) = 1
    /\ LET rules == RulesOf(manual)
       IN  /\ Len(rules) = 2
           /\ rules[1].title # rules[2].title
           /\ rules[1].severity # rules[2].severity
           /\ \A id \in DOMAIN srgs : srgs[id].title = rules[2].title

=============================================================================
